---- MODULE Spec2Model ----
(***************************************************************************)
(* Model of NodeIO (src/nodes/nodeio.cpp): the connection points of the    *)
(* node graph (classification, edges, EdgesChanged emission) and the       *)
(* keyframe navigation of a row over its fields.                           *)
(*                                                                         *)
(* Q_ASSERT is modelled as a fatal precondition failure: the call fails    *)
(* and the objects are left as they were.                                  *)
(***************************************************************************)
EXTENDS Integers, Sequences, FiniteSets, TLC

\* ------------------------------------------------------------------ bounds
NumPorts == 3
NumTypes == 2
MaxAccepted == 1
MaxEdges == 2
MaxDepth == 2
MaxFields == 2
MaxTime == 2
MaxValue == 1
MaxKeys == 2
MaxSeekKeys == 3
MaxRowKeys == 1
MaxOffset == 1
MaxUndo == 2

\* olive::nodes::kInvalid, the output type of a port that is not an output
kInvalid == 0

Ports == 1..NumPorts
Types == 1..NumTypes
DataType == {kInvalid} \cup Types
EdgeIds == 1..MaxEdges
Times == 0..MaxTime
Values == 0..MaxValue

\* long key = LONG_MIN, of a 32-bit long; only its being below every frame matters
LONG_MIN == -2147483647 - 1

\* GetParentEffect()->type(): a transition, or any other effect
EFFECT_TYPE_TRANSITION == "EFFECT_TYPE_TRANSITION"

EFFECT_TYPE_EFFECT == "EFFECT_TYPE_EFFECT"

\* long key = LONG_MAX, of a 32-bit long; only its being above every frame matters
LONG_MAX == 2147483647

VARIABLES
  accepted_inputs_,   \* per port: QVector<DataType>
  output_type_,       \* per port: DataType
  node_edges_,        \* per port: QVector<NodeEdgePtr>, edges as [id, output, input]
  stack,              \* call stack of ConnectEdge/DisconnectEdge frames stopped at an emit
  notified,           \* ports whose EdgesChanged was emitted since the outermost call began
  last,               \* the last top-level call: its name, arguments and outcome
  keyframing_,        \* of the one row whose fields are modelled: bool
  fields_,            \* of that row: its fields, each [keyframes, persistent_data_]
  playhead,           \* c->track()->sequence()->playhead
  clip_in,            \* c->clip_in()
  timeline_in,        \* c->timeline_in()
  undo_stack,         \* olive::undo_stack: the ComboActions pushed
  seek,               \* what the last call asked of panel_sequence_viewer->seek
  toggled,            \* ToggleKeyframe calls in a row, and the fields before the first
  keyframable_,       \* of that row: bool, set by the constructor
  effect_type,        \* GetParentEffect()->type()
  pre,                \* keyframing_, fields_ and undo_stack as the last call on the row found them
  flipped             \* fields_ as the slots of the last KeyframingSetChanged found them

graph_vars == <<accepted_inputs_, output_type_, node_edges_, stack, notified>>
row_vars == <<keyframable_, effect_type>>
key_vars == <<keyframing_, fields_, playhead, clip_in, timeline_in, undo_stack, seek, toggled,
              keyframable_, effect_type, pre, flipped>>
vars == <<accepted_inputs_, output_type_, node_edges_, stack, notified, last,
          keyframing_, fields_, playhead, clip_in, timeline_in, undo_stack, seek, toggled,
          keyframable_, effect_type, pre, flipped>>

\* ------------------------------------------------------------- helpers
IsNodeInput(p) == accepted_inputs_[p] # <<>>

IsNodeOutput(p) == output_type_[p] # kInvalid

Contains(s, x) == \E i \in DOMAIN s : s[i] = x

CanAcceptDataType(p, type) ==
  IF ~IsNodeInput(p) THEN FALSE ELSE Contains(accepted_inputs_[p], type)

OutputDataType(p) == output_type_[p]

RemoveAll(s, x) == SelectSeq(s, LAMBDA y : y # x)

\* every edge object some port's list refers to
LiveEdges == UNION {{node_edges_[p][i] : i \in DOMAIN node_edges_[p]} : p \in Ports}

LiveIds == {e.id : e \in LiveEdges}

\* std::make_shared<NodeEdge>(output, input): a new object, distinct from the live ones
NewEdge(edges, output, input) ==
  LET used == UNION {{edges[p][i].id : i \in DOMAIN edges[p]} : p \in Ports}
      id == CHOOSE i \in EdgeIds : i \notin used /\ \A j \in EdgeIds \ used : i <= j
  IN [id |-> id, output |-> output, input |-> input]

\* line 106 left out: the edge stays in its input's list
Removed_OutputOnly(edges, edge) ==
  [p \in Ports |-> IF p = edge.output THEN RemoveAll(edges[p], edge) ELSE edges[p]]

\* line 105 left out: the edge stays in its output's list
Removed_InputOnly(edges, edge) ==
  [p \in Ports |-> IF p = edge.input THEN RemoveAll(edges[p], edge) ELSE edges[p]]

\* lines 105-106
Removed(edges, edge) ==
  [p \in Ports |->
     IF p = edge.output \/ p = edge.input THEN RemoveAll(edges[p], edge) ELSE edges[p]]

\* line 95 left out: the new edge is in its output's list alone
Appended_OutputOnly(edges, output, input) ==
  LET edge == NewEdge(edges, output, input)
  IN [p \in Ports |-> IF p = output THEN Append(edges[p], edge) ELSE edges[p]]

\* lines 92-95
Appended(edges, output, input) ==
  LET edge == NewEdge(edges, output, input)
  IN [p \in Ports |->
        IF p = output /\ p = input THEN Append(Append(edges[p], edge), edge)
        ELSE IF p = output \/ p = input THEN Append(edges[p], edge)
        ELSE edges[p]]

Frame(fn, pc, output, input) == [fn |-> fn, pc |-> pc, output |-> output, input |-> input]

\* ConnectEdge frames waiting at line 89 for the nested DisconnectEdge to return
Pending(stk) == Cardinality({i \in DOMAIN stk : stk[i].fn = "ConnectEdge" /\ stk[i].pc = 89})

\* calls in progress that a caller or a slot made (the DisconnectEdge of line 89
\* is part of its ConnectEdge)
Depth(stk) == Len(stk) - Pending(stk)

TopLevel == stack = <<>>

\* old: the output port of the edge the call removed, 0 when it removed none
Called(op, a, b, outcome, old) ==
  [op |-> op, a |-> a, b |-> b, outcome |-> outcome, old |-> old]

NoteCall(op, a, b, outcome, old) ==
  IF TopLevel THEN last' = Called(op, a, b, outcome, old) ELSE UNCHANGED last

\* ------------------------------------------------------------- operations
\* the Q_ASSERT of line 70 left out
AddAcceptedNodeInput_NoAssert(p, type) ==
  /\ TopLevel
  /\ Len(accepted_inputs_[p]) < MaxAccepted
  /\ accepted_inputs_' = [accepted_inputs_ EXCEPT ![p] = Append(@, type)]
  /\ last' = Called("AddAcceptedNodeInput", p, p, "ok", 0)
  /\ UNCHANGED <<output_type_, node_edges_, stack, notified, key_vars>>

AddAcceptedNodeInput(p, type) ==
  /\ TopLevel
  /\ Len(accepted_inputs_[p]) < MaxAccepted
  /\ IF output_type_[p] = kInvalid
       THEN /\ accepted_inputs_' = [accepted_inputs_ EXCEPT ![p] = Append(@, type)]
            /\ last' = Called("AddAcceptedNodeInput", p, p, "ok", 0)
       ELSE /\ UNCHANGED accepted_inputs_
            /\ last' = Called("AddAcceptedNodeInput", p, p, "assert", 0)
  /\ UNCHANGED <<output_type_, node_edges_, stack, notified, key_vars>>

SetOutputDataType(p, type) ==
  /\ TopLevel
  /\ IF accepted_inputs_[p] = <<>>
       THEN /\ output_type_' = [output_type_ EXCEPT ![p] = type]
            /\ last' = Called("SetOutputDataType", p, p, "ok", 0)
       ELSE /\ UNCHANGED output_type_
            /\ last' = Called("SetOutputDataType", p, p, "assert", 0)
  /\ UNCHANGED <<accepted_inputs_, node_edges_, stack, notified, key_vars>>

\* ConnectEdge from its entry to its first emit: line 97, or line 108 of the
\* DisconnectEdge called at line 89.
ConnectEdge(a, b) ==
  LET swap == IsNodeOutput(b)
      output == IF swap THEN b ELSE a
      input == IF swap THEN a ELSE b
      replace == node_edges_[input] # <<>>
      old == Head(node_edges_[input])
      began == IF TopLevel THEN {} ELSE notified
  IN /\ Depth(stack) < MaxDepth
     /\ UNCHANGED key_vars
     /\ IF IsNodeInput(a) = IsNodeInput(b)
          THEN /\ NoteCall("ConnectEdge", a, b, "assert", 0)
               /\ UNCHANGED graph_vars
          ELSE /\ Cardinality(LiveIds) - (IF replace THEN 1 ELSE 0) + Pending(stack) < MaxEdges
               /\ NoteCall("ConnectEdge", a, b, "ok", IF replace THEN old.output ELSE 0)
               /\ IF replace
                    THEN /\ node_edges_' = Removed(node_edges_, old)
                         /\ stack' = stack \o << Frame("ConnectEdge", 89, output, input),
                                                Frame("DisconnectEdge", 108, old.output, old.input) >>
                         /\ notified' = began \cup {old.output}
                    ELSE /\ node_edges_' = Appended(node_edges_, output, input)
                         /\ stack' = Append(stack, Frame("ConnectEdge", 97, output, input))
                         /\ notified' = began \cup {output}
               /\ UNCHANGED <<accepted_inputs_, output_type_>>

\* DisconnectEdge from its entry to its emit at line 108
DisconnectEdge(edge) ==
  /\ Depth(stack) < MaxDepth
  /\ NoteCall("DisconnectEdge", edge.output, edge.input, "ok", edge.output)
  /\ node_edges_' = Removed(node_edges_, edge)
  /\ stack' = Append(stack, Frame("DisconnectEdge", 108, edge.output, edge.input))
  /\ notified' = (IF TopLevel THEN {} ELSE notified) \cup {edge.output}
  /\ UNCHANGED <<accepted_inputs_, output_type_, key_vars>>

\* The slots of the EdgesChanged being emitted have run: the function at the top
\* of the stack returns, and a ConnectEdge that was waiting at line 89 goes on
\* to its own emit at line 97.
Return ==
  /\ stack # <<>>
  /\ LET rest == SubSeq(stack, 1, Len(stack) - 1)
         caller == rest[Len(rest)]
     IN IF rest # <<>> /\ caller.fn = "ConnectEdge" /\ caller.pc = 89
          THEN /\ node_edges_' = Appended(node_edges_, caller.output, caller.input)
               /\ stack' = [rest EXCEPT ![Len(rest)].pc = 97]
               /\ notified' = notified \cup {caller.output}
          ELSE /\ stack' = rest
               /\ UNCHANGED <<node_edges_, notified>>
  /\ UNCHANGED <<accepted_inputs_, output_type_, last, key_vars>>

\* ------------------------------------------------------------- keyframes
\* long time_adjustment = c->timeline_in() - c->clip_in()
time_adjustment == timeline_in - clip_in

\* GetParentEffect()->Now(): the playhead as a frame of the clip
Now == playhead - time_adjustment

FieldCount == Len(fields_)

Max(x, y) == IF x >= y THEN x ELSE y

\* comp <= sequence_playhead in place of line 259
Earlier_OrEqual(comp) == comp <= playhead

\* line 259
Earlier(comp) == comp < playhead

\* the loop of lines 255-262 over the keyframes of one field, from index j on
RECURSIVE ScanEarlier(_, _, _)
ScanEarlier(keyframes, j, key) ==
  IF j > Len(keyframes) THEN key
  ELSE LET comp == keyframes[j].time + time_adjustment
       IN ScanEarlier(keyframes, j + 1, IF Earlier(comp) THEN Max(comp, key) ELSE key)

\* the loop of lines 250-263 over the fields, from index i on
RECURSIVE PreviousKey(_, _)
PreviousKey(i, key) ==
  IF i > FieldCount THEN key
  ELSE PreviousKey(i + 1, ScanEarlier(fields_[i].keyframes, 1, key))

NoToggle == [n |-> 0, before |-> <<>>]

NoPre == [keyframing |-> FALSE, fields |-> <<>>, undo |-> <<>>]

\* what a call on the row finds
Found == [keyframing |-> keyframing_, fields |-> fields_, undo |-> undo_stack]

NoSeek == [requested |-> FALSE, frame |-> 0]

GoToPreviousKeyframe ==
  LET key == PreviousKey(1, LONG_MIN)
  IN /\ seek' = IF key # LONG_MIN THEN [requested |-> TRUE, frame |-> key] ELSE NoSeek
     /\ last' = Called("GoToPreviousKeyframe", 1, 1, "ok", 0)
     /\ toggled' = NoToggle
     /\ UNCHANGED <<graph_vars, row_vars, keyframing_, fields_, playhead, clip_in, timeline_in,
                    undo_stack, pre, flipped>>

Min(x, y) == IF x <= y THEN x ELSE y

\* comp >= playhead in place of line 346
Later_OrEqual(comp) == comp >= playhead

\* line 346
Later(comp) == comp > playhead

\* the loop of lines 344-349 over the keyframes of one field, from index j on
RECURSIVE ScanLater(_, _, _)
ScanLater(keyframes, j, key) ==
  IF j > Len(keyframes) THEN key
  ELSE LET comp == keyframes[j].time - clip_in + timeline_in
       IN ScanLater(keyframes, j + 1, IF Later(comp) THEN Min(comp, key) ELSE key)

\* the loop of lines 342-350 over the fields, from index i on
RECURSIVE NextKey(_, _)
NextKey(i, key) ==
  IF i > FieldCount THEN key
  ELSE NextKey(i + 1, ScanLater(fields_[i].keyframes, 1, key))

GoToNextKeyframe ==
  LET key == NextKey(1, LONG_MAX)
  IN /\ seek' = IF key # LONG_MAX THEN [requested |-> TRUE, frame |-> key] ELSE NoSeek
     /\ last' = Called("GoToNextKeyframe", 1, 1, "ok", 0)
     /\ toggled' = NoToggle
     /\ UNCHANGED <<graph_vars, row_vars, keyframing_, fields_, playhead, clip_in, timeline_in,
                    undo_stack, pre, flipped>>

\* keyframes.at(i).time == sequence_playhead, the time_adjustment of line 283 left out
AtPlayhead_NoAdjustment(keyframe) == keyframe.time = playhead

\* lines 283-285
AtPlayhead(keyframe) == keyframe.time + time_adjustment = playhead

\* the loop of lines 282-292 over the keyframes of field j, from index i on
RECURSIVE ScanCurrent(_, _, _)
ScanCurrent(j, i, found) ==
  IF i > Len(fields_[j].keyframes) THEN found
  ELSE ScanCurrent(j, i + 1,
                   IF AtPlayhead(fields_[j].keyframes[i])
                     THEN Append(found, [field |-> j, index |-> i])
                     ELSE found)

\* the loop of lines 280-293: key_fields and key_field_index
RECURSIVE CurrentKeys(_, _)
CurrentKeys(j, found) ==
  IF j > FieldCount THEN found ELSE CurrentKeys(j + 1, ScanCurrent(j, 1, found))

InsertAt(s, j, x) == SubSeq(s, 1, j - 1) \o <<x>> \o SubSeq(s, j, Len(s))

RemoveAt(s, i) == SubSeq(s, 1, i - 1) \o SubSeq(s, i + 1, Len(s))

InsertSorted_AtEnd(sorted, x) == Append(sorted, x)

\* lines 313-326: before the first entry of a smaller index, else at the end
InsertSorted(sorted, x) ==
  LET smaller == {j \in DOMAIN sorted : sorted[j].index < x.index}
  IN IF smaller = {} THEN Append(sorted, x)
     ELSE InsertAt(sorted, CHOOSE j \in smaller : \A k \in smaller : j <= k, x)

\* the loop of lines 310-327: sorted_key_fields and sorted_key_field_index
RECURSIVE SortKeys(_, _, _)
SortKeys(found, i, sorted) ==
  IF i > Len(found) THEN sorted ELSE SortKeys(found, i + 1, InsertSorted(sorted, found[i]))

\* EffectField::GetValueAt between keyframes: linear
Interpolate(keyframes, t) ==
  LET n == Len(keyframes)
  IN IF \E i \in 1..n : keyframes[i].time = t
       THEN keyframes[CHOOSE i \in 1..n : keyframes[i].time = t].data
     ELSE IF t < keyframes[1].time THEN keyframes[1].data
     ELSE IF t > keyframes[n].time THEN keyframes[n].data
     ELSE LET i == CHOOSE k \in 1..(n - 1) : keyframes[k].time < t /\ t < keyframes[k + 1].time
              a == keyframes[i]
              b == keyframes[i + 1]
          IN a.data + ((b.data - a.data) * (t - a.time)) \div (b.time - a.time)

\* EffectField::GetValueAt
FieldGetValueAt(f, t) ==
  IF ~keyframing_ \/ f.keyframes = <<>> THEN f.persistent_data_
  ELSE Interpolate(f.keyframes, t)

\* EffectField::SetValueAt
FieldSetValueAt(f, t, v) ==
  IF ~keyframing_ THEN [f EXCEPT !.persistent_data_ = v]
  ELSE IF \E i \in DOMAIN f.keyframes : f.keyframes[i].time = t
    THEN [f EXCEPT !.keyframes =
            [i \in DOMAIN f.keyframes |->
               IF f.keyframes[i].time = t THEN [time |-> t, data |-> v] ELSE f.keyframes[i]]]
  ELSE LET before == Cardinality({i \in DOMAIN f.keyframes : f.keyframes[i].time < t})
       IN [f EXCEPT !.keyframes = InsertAt(f.keyframes, before + 1, [time |-> t, data |-> v])]

\* lines 359-368: the fields after the loop
KeyframeOnAllFields ==
  [i \in 1..FieldCount |-> FieldSetValueAt(fields_[i], Now, FieldGetValueAt(fields_[i], Now))]

\* lines 362-367: what the loop appends to ca
DataChanges == [i \in 1..FieldCount |-> [cmd |-> "KeyframeDataChange", field |-> i, index |-> 0]]

\* lines 329-331: what the loop appends to ca
Deletes(sorted) ==
  [i \in DOMAIN sorted |->
     [cmd |-> "KeyframeDelete", field |-> sorted[i].field, index |-> sorted[i].index]]

\* KeyframeDelete::redo of the commands of ca, from the n-th on, as the push runs them
RECURSIVE Deleted(_, _, _)
Deleted(fields, ca, n) ==
  IF n > Len(ca) THEN fields
  ELSE Deleted([fields EXCEPT ![ca[n].field].keyframes = RemoveAt(@, ca[n].index)], ca, n + 1)

ToggleKeyframe ==
  LET found == CurrentKeys(1, <<>>)
      ca == IF found = <<>> THEN DataChanges ELSE Deletes(SortKeys(found, 1, <<>>))
  IN /\ Len(undo_stack) < MaxUndo
     /\ fields_' = IF found = <<>> THEN KeyframeOnAllFields ELSE Deleted(fields_, ca, 1)
     /\ undo_stack' = Append(undo_stack, ca)
     /\ toggled' = IF toggled.n = 1 THEN [toggled EXCEPT !.n = 2]
                   ELSE [n |-> 1, before |-> fields_]
     /\ last' = Called("ToggleKeyframe", 1, 1, "ok", 0)
     /\ pre' = Found
     /\ UNCHANGED <<graph_vars, row_vars, keyframing_, playhead, clip_in, timeline_in, seek, flipped>>

\* SetKeyframingInternal(b): keyframing_ after the call
SetKeyframingInternal_Keep(b) == keyframing_

SetKeyframingInternal(b) ==
  IF effect_type # EFFECT_TYPE_TRANSITION THEN b ELSE keyframing_

\* the early return of SetKeyframingEnabled
AlreadySet_Never(enabled) == FALSE

AlreadySet(enabled) == enabled = keyframing_

\* EffectField::PrepareDataForKeyframing: the static value becomes the one keyframe at the
\* current time, or the value at the current time becomes the static value and the keyframes go
PrepareDataForKeyframing(f, enabled) ==
  IF enabled
    THEN [f EXCEPT !.keyframes = <<[time |-> Now, data |-> f.persistent_data_]>>]
    ELSE [keyframes |-> <<>>, persistent_data_ |-> FieldGetValueAt(f, Now)]

\* the loops over Field(i): the fields after them
Prepared(enabled) ==
  [i \in 1..FieldCount |-> PrepareDataForKeyframing(fields_[i], enabled)]

\* what the loops over Field(i) record in ca
Preparations(enabled) ==
  [i \in 1..FieldCount |->
     [cmd |-> "PrepareDataForKeyframing", field |-> i, index |-> IF enabled THEN 1 ELSE 0]]

\* new SetIsKeyframing(this, b)
SetIsKeyframing(b) == [cmd |-> "SetIsKeyframing", field |-> 0, index |-> IF b THEN 1 ELSE 0]

\* ca of the enabling branch
EnableCommands_NoFlag == Preparations(TRUE)

EnableCommands == <<SetIsKeyframing(TRUE)>> \o Preparations(TRUE)

\* ca of the disabling branch
DisableCommands == Preparations(FALSE) \o <<SetIsKeyframing(FALSE)>>

\* the branch of the answer No
Declined_Disabled == SetKeyframingInternal(FALSE)

Declined == SetKeyframingInternal(TRUE)

\* QMessageBox::question was not shown, answered Yes, answered No
NotAsked == 0

Yes == 1

No == 2

Flag(b) == IF b THEN 1 ELSE 0

\* answer is what the user would answer if asked
SetKeyframingEnabled(enabled, answer) ==
  /\ pre' = Found
  /\ toggled' = NoToggle
  /\ IF AlreadySet(enabled)
       THEN /\ last' = Called("SetKeyframingEnabled", Flag(enabled), NotAsked, "returned", 0)
            /\ UNCHANGED <<keyframing_, fields_, undo_stack, flipped>>
     ELSE IF enabled \/ answer = Yes
       THEN /\ Len(undo_stack) < MaxUndo
            /\ fields_' = Prepared(enabled)
            /\ keyframing_' = SetKeyframingInternal(enabled)
            /\ flipped' = IF effect_type # EFFECT_TYPE_TRANSITION THEN fields_' ELSE flipped
            /\ undo_stack' = Append(undo_stack,
                                    IF enabled THEN EnableCommands ELSE DisableCommands)
            /\ last' = Called("SetKeyframingEnabled", Flag(enabled),
                              IF enabled THEN NotAsked ELSE Yes, "pushed", 0)
     ELSE /\ keyframing_' = Declined
          /\ flipped' = IF effect_type # EFFECT_TYPE_TRANSITION THEN fields_ ELSE flipped
          /\ last' = Called("SetKeyframingEnabled", Flag(enabled), No, "declined", 0)
          /\ UNCHANGED <<fields_, undo_stack>>
  /\ UNCHANGED <<graph_vars, row_vars, playhead, clip_in, timeline_in, seek>>

\* Q_ASSERT(FieldCount() == 1)
SingleField_AtLeastOne == FieldCount >= 1

SingleField == FieldCount = 1

\* NodeIO::GetValueAt; last.old is the value returned
GetValueAt(timecode) ==
  /\ pre' = Found
  /\ toggled' = NoToggle
  /\ last' = IF SingleField
               THEN Called("GetValueAt", timecode, 0, "ok", FieldGetValueAt(fields_[1], timecode))
               ELSE Called("GetValueAt", timecode, 0, "assert", 0)
  /\ UNCHANGED <<graph_vars, row_vars, keyframing_, fields_, playhead, clip_in, timeline_in,
                 undo_stack, seek, flipped>>

\* NodeIO::SetValueAt
SetValueAt(timecode, value) ==
  /\ pre' = Found
  /\ toggled' = NoToggle
  /\ IF SingleField
       THEN /\ fields_' = [fields_ EXCEPT ![1] = FieldSetValueAt(@, timecode, value)]
            /\ last' = Called("SetValueAt", timecode, value, "ok", 0)
       ELSE /\ last' = Called("SetValueAt", timecode, value, "assert", 0)
            /\ UNCHANGED fields_
  /\ UNCHANGED <<graph_vars, row_vars, keyframing_, playhead, clip_in, timeline_in,
                 undo_stack, seek, flipped>>

\* ------------------------------------------------------------- specifications
NoCall == [op |-> "none", a |-> 1, b |-> 1, outcome |-> "ok", old |-> 0]

\* a row newly constructed: no field, not keyframing, nothing pushed or sought
NoRow ==
  /\ keyframing_ = FALSE
  /\ fields_ = <<>>
  /\ playhead = 0
  /\ clip_in = 0
  /\ timeline_in = 0
  /\ undo_stack = <<>>
  /\ seek = NoSeek
  /\ toggled = NoToggle
  /\ keyframable_ = TRUE
  /\ effect_type = EFFECT_TYPE_EFFECT
  /\ pre = NoPre
  /\ flipped = <<>>

\* NodeIO::NodeIO for every port
Init ==
  /\ accepted_inputs_ = [p \in Ports |-> <<>>]
  /\ output_type_ = [p \in Ports |-> kInvalid]
  /\ node_edges_ = [p \in Ports |-> <<>>]
  /\ stack = <<>>
  /\ notified = {}
  /\ last = NoCall
  /\ NoRow

Next ==
  \/ \E p \in Ports, type \in DataType : AddAcceptedNodeInput(p, type)
  \/ \E p \in Ports, type \in DataType : SetOutputDataType(p, type)
  \/ \E a, b \in Ports : TopLevel /\ ConnectEdge(a, b)
  \/ \E edge \in LiveEdges : TopLevel /\ DisconnectEdge(edge)
  \/ Return

Spec == Init /\ [][Next]_vars


\* Ports that one AddAcceptedNodeInput or one SetOutputDataType call each has
\* classified, as an input or as an output, and no edge yet.
InitClassified ==
  /\ accepted_inputs_ \in [Ports -> {<<>>} \cup {<<type>> : type \in Types}]
  /\ output_type_ \in [Ports -> DataType]
  /\ \A p \in Ports : IsNodeInput(p) # IsNodeOutput(p)
  /\ node_edges_ = [p \in Ports |-> <<>>]
  /\ stack = <<>>
  /\ notified = {}
  /\ last = NoCall
  /\ NoRow

\* top-level ConnectEdge and DisconnectEdge calls, the slots of EdgesChanged
\* leaving the graph alone
NextTop ==
  \/ \E a, b \in Ports : TopLevel /\ ConnectEdge(a, b)
  \/ \E edge \in LiveEdges : TopLevel /\ DisconnectEdge(edge)
  \/ Return

SpecTop == InitClassified /\ [][NextTop]_vars

\* the slots of EdgesChanged call ConnectEdge and DisconnectEdge themselves
NextReentrant ==
  \/ \E a, b \in Ports : ConnectEdge(a, b)
  \/ \E edge \in LiveEdges : DisconnectEdge(edge)
  \/ Return

SpecReentrant == InitClassified /\ [][NextReentrant]_vars

\* classification calls alone, on newly constructed ports
NextClassify ==
  \/ \E p \in Ports, type \in DataType : AddAcceptedNodeInput(p, type)
  \/ \E p \in Ports, type \in DataType : SetOutputDataType(p, type)

SpecClassify == Init /\ [][NextClassify]_vars

\* the keyframes K (pairs of field and time) of field j, by time, with the data val gives them
KeyframesOf(K, val, j) ==
  LET T == {k[2] : k \in {x \in K : x[1] = j}}
      nth(i) == CHOOSE t \in T : Cardinality({u \in T : u < t}) = i - 1
  IN [i \in 1..Cardinality(T) |-> [time |-> nth(i), data |-> val[<<j, nth(i)>>]]]

\* One row with its fields, as AddField and the fields' SetValueAt calls leave it:
\* at most maxkeys keyframes with data among values, in time order, none while
\* the row is not keyframing, and while it is keyframing one static value in all
\* fields; the clip untrimmed or at the start of the timeline, the playhead
\* somewhere on it.
InitRow(maxkeys, values) ==
  /\ accepted_inputs_ = [p \in Ports |-> <<>>]
  /\ output_type_ = [p \in Ports |-> kInvalid]
  /\ node_edges_ = [p \in Ports |-> <<>>]
  /\ stack = <<>>
  /\ notified = {}
  /\ last = NoCall
  /\ clip_in \in 0..MaxOffset
  /\ timeline_in \in 0..MaxOffset
  /\ clip_in = 0 \/ timeline_in = 0
  /\ playhead \in {t + timeline_in - clip_in : t \in Times} \cap Nat
  /\ keyframing_ \in BOOLEAN
  /\ \E n \in 0..MaxFields :
       \E K \in SUBSET ((1..n) \X Times) :
         /\ Cardinality(K) <= maxkeys
         /\ keyframing_ \/ K = {}
         /\ \E val \in [K -> values], pers \in [1..n -> values] :
              /\ keyframing_ => \A i, j \in 1..n : pers[i] = pers[j]
              /\ fields_ = [j \in 1..n |->
                           [keyframes |-> KeyframesOf(K, val, j), persistent_data_ |-> pers[j]]]
  /\ undo_stack = <<>>
  /\ seek = NoSeek
  /\ toggled = NoToggle
  /\ pre = NoPre
  /\ flipped = <<>>

\* a keyframable row of an effect that is no transition
PlainRow ==
  /\ keyframable_ = TRUE
  /\ effect_type = EFFECT_TYPE_EFFECT

\* the search reads the times alone: every value is 0
InitSeek == InitRow(MaxSeekKeys, {0}) /\ PlainRow

InitToggle == InitRow(MaxKeys, Values) /\ PlainRow

NextSeek ==
  \/ GoToPreviousKeyframe
  \/ GoToNextKeyframe

SpecSeek == InitSeek /\ [][NextSeek]_vars

NextToggle == ToggleKeyframe

SpecToggle == InitToggle /\ [][NextToggle]_vars

\* a row of any effect, keyframable or not; the flag starts where the constructor and the
\* calls of a keyframable row of an effect that is no transition can leave it
InitKeyframing ==
  /\ InitRow(MaxRowKeys, Values)
  /\ keyframable_ \in BOOLEAN
  /\ effect_type \in {EFFECT_TYPE_EFFECT, EFFECT_TYPE_TRANSITION}
  /\ keyframing_ => keyframable_ /\ effect_type # EFFECT_TYPE_TRANSITION

NextKeyframing ==
  \/ \E enabled \in BOOLEAN, answer \in {Yes, No} : SetKeyframingEnabled(enabled, answer)
  \/ ToggleKeyframe

SpecKeyframing == InitKeyframing /\ [][NextKeyframing]_vars

\* GetValueAt and SetValueAt read neither the playhead nor the in points of the clip
InitValue ==
  /\ InitRow(MaxKeys, Values)
  /\ PlainRow
  /\ clip_in = 0 /\ timeline_in = 0 /\ playhead = 0

NextValue ==
  \/ \E timecode \in Times : GetValueAt(timecode)
  \/ \E timecode \in Times, value \in Values : SetValueAt(timecode, value)

SpecValue == InitValue /\ [][NextValue]_vars



\* ------------------------------------------------------------- claims
\* the ports of the last top-level ConnectEdge, after the swap of lines 81-85
LastOutput == IF last.op = "ConnectEdge" /\ IsNodeOutput(last.b) THEN last.b ELSE last.a

LastInput == IF last.op = "ConnectEdge" /\ IsNodeOutput(last.b) THEN last.a ELSE last.b

\* C1: with top-level ConnectEdge/DisconnectEdge calls on classified ports, an
\* input port never holds more than one edge.
C1_InputAtMostOneEdge ==
  \A p \in Ports : IsNodeInput(p) => Len(node_edges_[p]) <= 1

\* a ConnectEdge that replaced the edge of an input has returned
C1_Witness ==
  /\ TopLevel
  /\ last.op = "ConnectEdge" /\ last.outcome = "ok" /\ last.old # 0
  /\ IsNodeInput(LastInput) /\ Len(node_edges_[LastInput]) = 1

\* C2: with slots of EdgesChanged that call ConnectEdge/DisconnectEdge, no input
\* port is seen with two edges, neither at an emit nor after the outermost return.
C2_NoTwoEdgesObservable ==
  \A p \in Ports :
    IsNodeInput(p) => \A i, j \in DOMAIN node_edges_[p] : i = j

\* C3: every edge has an output endpoint that IsNodeOutput and an input endpoint
\* that IsNodeInput.
C3_EdgeEndpointsClassified ==
  \A e \in LiveEdges : IsNodeOutput(e.output) /\ IsNodeInput(e.input)

ExactlyOneEach(a, b) ==
  \/ IsNodeInput(a) /\ ~IsNodeOutput(a) /\ IsNodeOutput(b) /\ ~IsNodeInput(b)
  \/ IsNodeInput(b) /\ ~IsNodeOutput(b) /\ IsNodeOutput(a) /\ ~IsNodeInput(a)

\* C4: ConnectEdge(a, b) fails, creating no edge, unless exactly one of a, b is
\* an input and the other an output.
C4_ConnectRejectsMisclassified ==
  (last.op = "ConnectEdge" /\ ~ExactlyOneEach(last.a, last.b))
    => (last.outcome = "assert" /\ TopLevel)

\* C5: the input of every edge accepts the output type of the edge's output.
C5_EdgesTypeCompatible ==
  \A e \in LiveEdges : CanAcceptDataType(e.input, OutputDataType(e.output))

\* C6: a newly constructed port is neither input nor output, and no sequence of
\* AddAcceptedNodeInput/SetOutputDataType calls makes a port both.
C6_NeverBothClassified ==
  /\ \A p \in Ports : ~IsNodeInput(p) /\ ~IsNodeOutput(p)
  /\ [](\A p \in Ports : ~(IsNodeInput(p) /\ IsNodeOutput(p)))

\* an AddAcceptedNodeInput on an output failed and left the port an output
C6_Witness ==
  /\ last.op = "AddAcceptedNodeInput" /\ last.outcome = "assert"
  /\ IsNodeOutput(last.a) /\ ~IsNodeInput(last.a)

\* C7: ConnectEdge(C, A) on an input A that held B->A leaves A with the one
\* edge C->A, which C holds too, and leaves B without an edge to A.
C7_ReplaceSemantics ==
  (TopLevel /\ last.op = "ConnectEdge" /\ last.outcome = "ok"
     /\ last.old # 0 /\ last.old # LastOutput)
    => /\ Len(node_edges_[LastInput]) = 1
       /\ node_edges_[LastInput][1].output = LastOutput
       /\ node_edges_[LastInput][1].input = LastInput
       /\ Contains(node_edges_[LastOutput], node_edges_[LastInput][1])
       /\ \A i \in DOMAIN node_edges_[last.old] :
            node_edges_[last.old][i].input # LastInput

\* B->A was replaced by C->A, B and C two outputs
C7_Witness ==
  /\ TopLevel /\ last.op = "ConnectEdge" /\ last.outcome = "ok"
  /\ last.old # 0 /\ last.old # LastOutput
  /\ IsNodeOutput(last.old) /\ IsNodeOutput(LastOutput) /\ IsNodeInput(LastInput)
  /\ node_edges_[LastInput] # <<>>

\* C8: a ConnectEdge or DisconnectEdge call has emitted EdgesChanged on both
\* endpoints of its edge by the time it returns.
C8_BothEndpointsNotified ==
  (TopLevel /\ last.op \in {"ConnectEdge", "DisconnectEdge"} /\ last.outcome = "ok")
    => {LastOutput, LastInput} \subseteq notified

\* the keyframes of every field
Keyframes(fields) == [j \in DOMAIN fields |-> fields[j].keyframes]

\* the converted times of the keyframes of all fields
ConvertedTimes(fields) ==
  UNION {{fields[j].keyframes[i].time + timeline_in - clip_in : i \in DOMAIN fields[j].keyframes}
           : j \in DOMAIN fields}

\* C9 as claimed: two ToggleKeyframe calls in a row at one playhead leave every
\* field with the keyframes it had, whatever it had at the playhead.
C9_ToggleTwiceRestores ==
  toggled.n = 2 => Keyframes(fields_) = Keyframes(toggled.before)

\* C9 as amended: when no field has a keyframe at the playhead, two
\* ToggleKeyframe calls in a row at that playhead leave every field with the
\* keyframes it had (the first call creates one per field, the second deletes them).
C9_CreateThenDeleteRestores ==
  (toggled.n = 2 /\ playhead \notin ConvertedTimes(toggled.before))
    => Keyframes(fields_) = Keyframes(toggled.before)

\* two calls on a keyframing row of two fields, with keyframes away from the playhead
C9_Witness ==
  /\ toggled.n = 2 /\ playhead \notin ConvertedTimes(toggled.before)
  /\ keyframing_ /\ FieldCount >= 2 /\ time_adjustment # 0
  /\ ConvertedTimes(toggled.before) # {}
  /\ Len(undo_stack) = 2 /\ undo_stack[2] # <<>> /\ undo_stack[2][1].cmd = "KeyframeDelete"

\* C10: GoToPreviousKeyframe seeks to the greatest converted keyframe time of
\* all fields that is less than the playhead, and does not seek when there is none.
C10_PreviousIsMaxBelowPlayhead ==
  last.op = "GoToPreviousKeyframe" =>
    LET below == {t \in ConvertedTimes(fields_) : t < playhead}
    IN IF below = {} THEN ~seek.requested
       ELSE /\ seek.requested
            /\ seek.frame \in below
            /\ \A t \in below : t <= seek.frame

\* a seek past a keyframe at the playhead, to the later of two earlier keyframes
\* that lie in different fields
C10_Witness ==
  /\ last.op = "GoToPreviousKeyframe" /\ seek.requested
  /\ playhead \in ConvertedTimes(fields_)
  /\ FieldCount >= 2
  /\ \E i \in DOMAIN fields_[1].keyframes, j \in DOMAIN fields_[2].keyframes :
       /\ fields_[1].keyframes[i].time < fields_[2].keyframes[j].time
       /\ fields_[2].keyframes[j].time + time_adjustment = seek.frame

\* C11: GoToNextKeyframe seeks to the least converted keyframe time of all
\* fields that is greater than the playhead, and does not seek when there is none.
C11_NextIsMinAbovePlayhead ==
  last.op = "GoToNextKeyframe" =>
    LET above == {t \in ConvertedTimes(fields_) : t > playhead}
    IN IF above = {} THEN ~seek.requested
       ELSE /\ seek.requested
            /\ seek.frame \in above
            /\ \A t \in above : seek.frame <= t

\* a seek past a keyframe at the playhead, to the earlier of two later keyframes
\* that lie in different fields
C11_Witness ==
  /\ last.op = "GoToNextKeyframe" /\ seek.requested
  /\ playhead \in ConvertedTimes(fields_)
  /\ FieldCount >= 2
  /\ \E i \in DOMAIN fields_[1].keyframes, j \in DOMAIN fields_[2].keyframes :
       /\ fields_[1].keyframes[i].time > fields_[2].keyframes[j].time
       /\ fields_[2].keyframes[j].time + time_adjustment = seek.frame

\* the last call was SetKeyframingEnabled(enabled)
LastSetKeyframingEnabled(enabled) ==
  last.op = "SetKeyframingEnabled" /\ last.a = Flag(enabled)

\* the call left the flag, the fields and the undo stack as it found them
RowAsFound ==
  /\ keyframing_ = pre.keyframing
  /\ fields_ = pre.fields
  /\ undo_stack = pre.undo

\* C12: SetKeyframingEnabled(false) on a keyframing row, answered No, leaves the flag true, the
\* keyframes and static value of every field as they were, and pushes nothing
C12_DeclinedChangesNothing ==
  (LastSetKeyframingEnabled(FALSE) /\ pre.keyframing /\ last.b = No) =>
    /\ keyframing_
    /\ fields_ = pre.fields
    /\ undo_stack = pre.undo

C12_Witness ==
  /\ LastSetKeyframingEnabled(FALSE) /\ pre.keyframing /\ last.b = No
  /\ \E i \in DOMAIN fields_ : fields_[i].keyframes # <<>>

\* C13: the keyframing flag is true only on a row constructed keyframable
C13_KeyframingOnlyIfKeyframable == keyframing_ => keyframable_

\* C14: SetKeyframingEnabled on a row of a transition changes neither the flag, nor a field,
\* nor the undo stack
C14_TransitionIgnored ==
  (last.op = "SetKeyframingEnabled" /\ effect_type = EFFECT_TYPE_TRANSITION) => RowAsFound

C17_SameStateNoOp ==
  \A x \in BOOLEAN :
    (LastSetKeyframingEnabled(x) /\ pre.keyframing = x) =>
      /\ RowAsFound
      /\ last.b = NotAsked

C17_Witness ==
  /\ LastSetKeyframingEnabled(FALSE) /\ ~pre.keyframing /\ fields_ # <<>>
  /\ undo_stack # <<>>

\* the keyframe of f at time t, if it has one
KeyAt(f, t) == {f.keyframes[i].data : i \in {k \in DOMAIN f.keyframes : f.keyframes[k].time = t}}

\* C16: GetValueAt(t) and SetValueAt(t, v) of a row succeed only on a row of exactly one
\* field and then read and write that field; on a row of no field or of two and more they
\* fail and leave every field as it was
C16_SingleFieldOnly ==
  last.op \in {"GetValueAt", "SetValueAt"} =>
    IF Len(pre.fields) = 1
      THEN /\ last.outcome = "ok"
           /\ Len(fields_) = 1
           /\ last.op = "GetValueAt" =>
                /\ fields_ = pre.fields
                /\ last.old = FieldGetValueAt(fields_[1], last.a)
           /\ last.op = "SetValueAt" =>
                /\ FieldGetValueAt(fields_[1], last.a) = last.b
                /\ IF keyframing_ THEN KeyAt(fields_[1], last.a) = {last.b}
                   ELSE fields_[1].persistent_data_ = last.b
      ELSE /\ last.outcome = "assert"
           /\ fields_ = pre.fields

C16_Witness ==
  /\ last.op = "SetValueAt" /\ last.outcome = "ok"
  /\ keyframing_
  /\ Len(pre.fields[1].keyframes) = 1
  /\ Len(fields_[1].keyframes) = 2
  /\ fields_[1].keyframes[1].time = last.a

C16_WitnessTwoFields ==
  /\ last.op = "SetValueAt" /\ last.outcome = "assert"
  /\ Len(fields_) = MaxFields

\* the keyframes of f whose converted time is, or is not, the playhead
OnPlayhead(f) ==
  SelectSeq(f.keyframes, LAMBDA k : k.time - clip_in + timeline_in = playhead)

OffPlayhead(f) ==
  SelectSeq(f.keyframes, LAMBDA k : k.time - clip_in + timeline_in # playhead)

\* the call found no keyframe on the playhead in any field
NoneOnPlayhead == \A i \in DOMAIN pre.fields : OnPlayhead(pre.fields[i]) = <<>>

\* every field has one keyframe more than the call found, one of them on the playhead
EveryFieldGained ==
  \A i \in DOMAIN fields_ :
    /\ Len(fields_[i].keyframes) = Len(pre.fields[i].keyframes) + 1
    /\ Len(OnPlayhead(fields_[i])) = 1
    /\ OffPlayhead(fields_[i]) = pre.fields[i].keyframes

\* every field lost its keyframe on the playhead and kept the others, and the removals
\* were recorded by descending index
OnPlayheadDeleted ==
  LET ca == undo_stack[Len(undo_stack)]
  IN /\ \A i \in DOMAIN fields_ : fields_[i].keyframes = OffPlayhead(pre.fields[i])
     /\ \A i, j \in DOMAIN ca : i < j => ca[i].index >= ca[j].index
     /\ \A i \in DOMAIN ca : ca[i].cmd = "KeyframeDelete"

FlagChanged == keyframing_ # pre.keyframing

FieldChanged(i) == i > Len(pre.fields) \/ fields_[i] # pre.fields[i]

\* C19: a SetKeyframingEnabled or ToggleKeyframe call that changes the flag or a field
\* pushes exactly one command onto the undo stack, and that command holds an entry for the
\* flag change and one for every field changed
C19_OneCommandPerCall ==
  (/\ last.op \in {"SetKeyframingEnabled", "ToggleKeyframe"}
   /\ FlagChanged \/ \E i \in DOMAIN fields_ : FieldChanged(i)) =>
    /\ Len(undo_stack) = Len(pre.undo) + 1
    /\ SubSeq(undo_stack, 1, Len(pre.undo)) = pre.undo
    /\ LET ca == undo_stack[Len(undo_stack)]
       IN /\ FlagChanged =>
               \E n \in DOMAIN ca :
                 ca[n] = [cmd |-> "SetIsKeyframing", field |-> 0, index |-> Flag(keyframing_)]
          /\ \A i \in DOMAIN fields_ :
               FieldChanged(i) => \E n \in DOMAIN ca : ca[n].field = i

C19_Witness ==
  /\ last.op = "SetKeyframingEnabled"
  /\ FlagChanged /\ ~keyframing_
  /\ Len(fields_) = MaxFields
  /\ \A i \in DOMAIN fields_ : FieldChanged(i)
  /\ Len(undo_stack) = MaxUndo
  /\ Len(undo_stack[1]) = MaxFields /\ undo_stack[1][1].cmd = "KeyframeDataChange"

\* how many times the list of port p holds edge
Occurrences(p, edge) == Cardinality({i \in DOMAIN node_edges_[p] : node_edges_[p][i] = edge})

\* C20: an edge in the list of any port is once in the list of its output, once in the
\* list of its input, and in the list of no other port
C20_EdgeRegistrationSymmetric ==
  \A edge \in LiveEdges :
    /\ edge.output # edge.input
    /\ Occurrences(edge.output, edge) = 1
    /\ Occurrences(edge.input, edge) = 1
    /\ \A p \in Ports \ {edge.output, edge.input} : Occurrences(p, edge) = 0

\* an edge was disconnected while another stays connected
C20_Witness ==
  /\ TopLevel
  /\ last.op = "DisconnectEdge"
  /\ \E edge \in LiveEdges :
       /\ Occurrences(edge.output, edge) = 1
       /\ Occurrences(edge.input, edge) = 1
       /\ last.a = edge.output
       /\ last.b # edge.input
====
